---- MODULE Spec2Model ----
(***************************************************************************)
(* The reactivity engine of src/core/reactivity/index.js: the dependency   *)
(* graph (targetMap), the active-effect slot, effect / track / trigger,    *)
(* useRef, useReactive, useComputed, useWatch and useMapReactive.          *)
(*                                                                         *)
(* JavaScript runs every call to completion, so each action below is one   *)
(* top-level call of the client program; the synchronous cascade it starts *)
(* (trigger -> effect -> read -> track -> ...) is computed by the          *)
(* recursive operators, which thread the engine state S through the calls  *)
(* in the order the code makes them.                                       *)
(***************************************************************************)
EXTENDS Integers, Sequences, FiniteSets, TLC

\* ---------------------------------------------------------------- bounds
MaxVal == 1
MaxEffects == 2

\* ---------------------------------------------------------------- values
\* JavaScript values are encoded as integers: numbers 0..MaxVal, undefined
\* and NaN (what `undefined + n` evaluates to).
Undef == -1
NaN == -2
Null == 0

Nums == 0..MaxVal
Vals == Nums \cup {Undef}
Refs == {"a", "b"}
\* The keys of the reactive map; "size" is a key the client may use like any
\* other string.
MapKeys == {"k", "j", "size"}

\* x !== y
StrictNeq(x, y) == x # y \/ x = NaN \/ y = NaN

\* x + y of the derivation function () => a.value + b.value
Plus(x, y) == IF x \in Nums /\ y \in Nums THEN x + y ELSE NaN

\* What a watcher's getter returns: a scalar or an array of scalars.
Scalar(v) == [arr |-> FALSE, els |-> <<v>>]
Arr(vs) == [arr |-> TRUE, els |-> vs]
NoArg == [arr |-> FALSE, els |-> <<>>]

\* ------------------------------------------------------------- the state
VARIABLES
    client,       \* which part of the API the client program uses
    val,          \* useRef: _value of each ref
    prop,         \* useReactive: target.p
    mkeys,        \* useMapReactive: the keys of `map`, in insertion order
    mval,         \* useMapReactive: the value stored under each key
    deps,         \* targetMap: <<target, key>> -> dep (insertion-ordered Set)
    activeEffect, \* the active-effect slot (Null or an effect id)
    effects,      \* every effectFn created so far; an effect's id is its index
    hasC,         \* whether the computed cell c has been created
    dirty,        \* useComputed: dirty
    cache,        \* useComputed: _value
    watchers,     \* useWatch closures (the client creates one): oldValue, cleanup, stop, options
    log,          \* what the last top-level call invoked, in order
    exc,          \* the exception the last top-level call ended with, if any
    last          \* the last top-level call

vars == <<client, val, prop, mkeys, mval, deps, activeEffect, effects, hasC,
          dirty, cache, watchers, log, exc, last>>

\* The engine state threaded through one synchronous call.
Engine ==
    [val |-> val, prop |-> prop, mkeys |-> mkeys, mval |-> mval, deps |-> deps,
     active |-> activeEffect, effects |-> effects, dirty |-> dirty,
     cache |-> cache, watchers |-> watchers, log |-> <<>>, exc |-> "none"]

\* An exception is in flight: the code that follows the throw is skipped up
\* to the top-level call (the engine has no catch block).
Raise(S, err) == [S EXCEPT !.exc = err]
Thrown(S) == S.exc # "none"

NoPair == <<"", "">>
Event(t, id) == [t |-> t, id |-> id, p |-> NoPair, new |-> NoArg, old |-> NoArg]
\* A read or a write of the value v stored for the pair p, made while the
\* effect id is active (0: none).
Access(t, id, p, v) == [t |-> t, id |-> id, p |-> p, new |-> Scalar(v), old |-> NoArg]
Logged(S, ev) == [S EXCEPT !.log = Append(@, ev)]

RefPair(r) == <<r, "value">>
CPair == <<"c", "value">>
PropPair == <<"o", "p">>
KeyPair(k) == <<"m", k>>
SizePair == <<"m", "size">>

\* Bind(v, F) is F(v) with v evaluated once, before F is applied: the
\* value a call returns is computed once however often the caller uses it.
Bind(v, F(_)) == CHOOSE y \in {F(x) : x \in {v}} : TRUE

\* ------------------------------------------------------- track / trigger
\* (mutant) an element that is in the set once is added a second time
SetAddTwice(dep, e) ==
    IF Cardinality({i \in 1..Len(dep) : dep[i] = e}) >= 2 THEN dep
    ELSE Append(dep, e)

\* Set.prototype.add: no effect when the element is already in the set.
SetAdd(dep, e) ==
    IF \E i \in 1..Len(dep) : dep[i] = e THEN dep ELSE Append(dep, e)

AddDep(d, p, e) ==
    IF p \in DOMAIN d
    THEN [d EXCEPT ![p] = SetAdd(@, e)]
    ELSE [q \in DOMAIN d \cup {p} |-> IF q = p THEN <<e>> ELSE d[q]]

\* (mutant) a read with no active effect creates the entry of the pair
trackCreatesEntry(S0, p) ==
    Bind(S0, LAMBDA S :
        IF S.active = Null
        THEN IF p \in DOMAIN S.deps THEN S
             ELSE [S EXCEPT !.deps =
                     [q \in DOMAIN S.deps \cup {p} |->
                         IF q = p THEN <<>> ELSE S.deps[q]]]
        ELSE [S EXCEPT !.deps = AddDep(@, p, S.active)])

\* track(target, key)
track(S0, p) ==
    Bind(S0, LAMBDA S :
        IF S.active = Null THEN S
        ELSE [S EXCEPT !.deps = AddDep(@, p, S.active)])

RECURSIVE trigger(_, _), effectFn(_, _), forEach(_, _, _), job(_, _)

\* --------------------------------------------------------------- writes
\* Whether the new value is written and the dependents triggered.
RefChanged(old, new) == StrictNeq(old, new)

\* useRef: set value
RefSet(S0, r, v) ==
    Bind(S0, LAMBDA S :
        IF RefChanged(S.val[r], v)
        THEN trigger(Logged([S EXCEPT !.val[r] = v],
                            Access("store", S.active, RefPair(r), v)),
                     RefPair(r))
        ELSE S)

\* (mutant) every set(key, value) triggers
KeyChangedAlways(hadKey, old, new) == TRUE

\* Whether a write to a property or a map key triggers its dependents.
PropChanged(old, new) == StrictNeq(old, new)
KeyChanged(hadKey, old, new) == ~hadKey \/ StrictNeq(old, new)

\* (mutant) the dependents are triggered before the value is stored
PropSetNotifiesFirst(S0, v) ==
    Bind(S0, LAMBDA S :
    Bind(IF PropChanged(S.prop, v) THEN trigger(S, PropPair) ELSE S, LAMBDA T :
        Logged([T EXCEPT !.prop = v], Access("store", S.active, PropPair, v))))

\* useReactive: set trap
PropSet(S0, v) ==
    Bind(S0, LAMBDA S :
    Bind(Logged([S EXCEPT !.prop = v], Access("store", S.active, PropPair, v)),
         LAMBDA W : IF PropChanged(S.prop, v) THEN trigger(W, PropPair) ELSE W))

MapHas(S, k) == \E i \in 1..Len(S.mkeys) : S.mkeys[i] = k

\* map.set(key, value) on the native Map
NativeSet(S, k, v) ==
    [S EXCEPT !.mkeys = IF MapHas(S, k) THEN @ ELSE Append(@, k), !.mval[k] = v]

\* useMapReactive: set(key, value)
MapSet(S0, k, v) ==
    Bind(S0, LAMBDA S :
    Bind(Logged(NativeSet(S, k, v), Access("store", S.active, KeyPair(k), v)),
         LAMBDA W :
            IF KeyChanged(MapHas(S, k), IF MapHas(S, k) THEN S.mval[k] ELSE Undef, v)
            THEN trigger(trigger(W, KeyPair(k)), SizePair)
            ELSE W))

\* map.delete(key) on the native Map
NativeDelete(S, k) ==
    [S EXCEPT !.mkeys = SelectSeq(@, LAMBDA x : x # k), !.mval[k] = Undef]

\* Whether delete(key) triggers the dependents of the key and of the size.
DeleteTriggers(hadKey) == hadKey

\* useMapReactive: delete(key)
MapDelete(S0, k) ==
    Bind(S0, LAMBDA S :
    Bind(Logged(NativeDelete(S, k), Access("delete", S.active, KeyPair(k), Undef)),
         LAMBDA W :
            IF DeleteTriggers(MapHas(S, k))
            THEN trigger(trigger(W, KeyPair(k)), SizePair)
            ELSE W))

\* map.clear() on the native Map
NativeClear(S) ==
    [S EXCEPT !.mkeys = <<>>, !.mval = [k \in MapKeys |-> Undef]]

\* oldKeys.forEach((key) => trigger(reactiveTarget, key))
RECURSIVE TriggerKeys(_, _, _)
TriggerKeys(S, oldKeys, i) ==
    IF i > Len(oldKeys) THEN S
    ELSE TriggerKeys(trigger(S, KeyPair(oldKeys[i])), oldKeys, i + 1)

\* useMapReactive: clear()
MapClear(S0) ==
    Bind(S0, LAMBDA S :
    Bind(Logged(NativeClear(S), Event("clear", S.active)), LAMBDA W :
        IF Len(S.mkeys) > 0
        THEN trigger(TriggerKeys(W, S.mkeys, 1), SizePair)
        ELSE W))

\* (mutant) a write to the value of the computed cell is stored
ComputedSetStores(S0, v) == [Logged(S0, Event("warn", 0)) EXCEPT !.cache = v]

\* useComputed: set value (console.warn, nothing else)
ComputedSet(S0, v) == Logged(S0, Event("warn", 0))

\* useReadonly: the set and deleteProperty traps (console.warn, return true)
ReadonlySet(S0, v) == Logged(S0, Event("warn", 0))
ReadonlyDelete(S0) == Logged(S0, Event("warn", 0))

\* A property read through the proxy useReadonly returns: there is no get
\* trap, the target's value is returned and nothing is tracked.
ReadonlyGet(S0) == Bind(S0, LAMBDA S : [st |-> S, ret |-> S.prop])

\* ---------------------------------------------------------------- reads
\* useRef: get value
RefGet(S0, r) ==
    Bind(S0, LAMBDA S :
        [st  |-> Logged(track(S, RefPair(r)),
                        Access("read", S.active, RefPair(r), S.val[r])),
         ret |-> S.val[r]])

\* The derivation function of the computed cell: () => a.value + b.value
getter(S0) ==
    Bind(RefGet(Logged(S0, Event("derive", 0)), "a"), LAMBDA A :
    Bind(RefGet(A.st, "b"), LAMBDA B :
        [st |-> B.st, ret |-> Plus(A.ret, B.ret)]))

\* (mutant) the derivation function is invoked by every read
MustDeriveAlways(isDirty) == TRUE

\* Whether a read of computedRef.value invokes the derivation function.
MustDerive(isDirty) == isDirty

\* _value = getter(); dirty = false
Recompute(S0) ==
    Bind(getter(S0), LAMBDA G : [G.st EXCEPT !.cache = G.ret, !.dirty = FALSE])

\* (mutant) a read that recomputes and leaves the cell dirty
ComputedGetKeepsDirty(S0) ==
    Bind(S0, LAMBDA S :
    Bind(Logged(S, Event(IF S.dirty THEN "getDirty" ELSE "getClean", 0)), LAMBDA L :
    Bind(IF MustDerive(S.dirty)
         THEN Bind(getter(L), LAMBDA G : [G.st EXCEPT !.cache = G.ret])
         ELSE L, LAMBDA S1 :
        [st  |-> Logged(track(S1, CPair), Access("read", S.active, CPair, S1.cache)),
         ret |-> S1.cache])))

\* useComputed: get value
ComputedGet(S0) ==
    Bind(S0, LAMBDA S :
    Bind(Logged(S, Event(IF S.dirty THEN "getDirty" ELSE "getClean", 0)), LAMBDA L :
    Bind(IF MustDerive(S.dirty) THEN Recompute(L) ELSE L, LAMBDA S1 :
        [st  |-> Logged(track(S1, CPair), Access("read", S.active, CPair, S1.cache)),
         ret |-> S1.cache])))

\* useReactive: get trap
PropGet(S0) ==
    Bind(S0, LAMBDA S :
        [st  |-> Logged(track(S, PropPair), Access("read", S.active, PropPair, S.prop)),
         ret |-> S.prop])

\* useMapReactive: get, has, size
MapGet(S0, k) ==
    Bind(S0, LAMBDA S :
    Bind(IF MapHas(S, k) THEN S.mval[k] ELSE Undef, LAMBDA v :
        [st  |-> Logged(track(S, KeyPair(k)), Access("read", S.active, KeyPair(k), v)),
         ret |-> v]))
MapHasKey(S0, k) ==
    Bind(S0, LAMBDA S :
        [st |-> track(S, KeyPair(k)), ret |-> IF MapHas(S, k) THEN 1 ELSE 0])
MapSize(S0) ==
    Bind(S0, LAMBDA S : [st |-> track(S, SizePair), ret |-> Len(S.mkeys)])

\* -------------------------------------------------- the client's functions
\* r.value.x in an effect body: reads r.value and throws a TypeError when
\* the value is undefined.
Deref(S0, r) ==
    Bind(RefGet(S0, r), LAMBDA R :
        IF R.ret = Undef
        THEN [st |-> Raise(Logged(R.st, Event("throw", R.st.active)), "TypeError"),
              ret |-> Undef]
        ELSE R)

\* (mutant) an element that is neither a function nor a ref reads as undefined
BadItemSilent(S0) == [st |-> S0, ret |-> Undef]

\* An element of an array source that is neither a function nor a ref:
\* throw new Error('source error') when the getter reaches it.
BadItem(S0) == [st |-> Raise(S0, "source error"), ret |-> Undef]

\* c ? c.value : undefined in an effect body, c being a variable of the
\* client that holds the computed cell once it has been created
LateGet(S0) ==
    Bind(S0, LAMBDA S :
        IF \E i \in 1..Len(S.effects) : S.effects[i].kind = "computed"
        THEN ComputedGet(S)
        ELSE [st |-> S, ret |-> Undef])

\* r.value = 0 in an effect body
WriteStep(S0, r) == [st |-> RefSet(S0, r, 0), ret |-> Undef]

\* One step of an effect body or of a watcher's getter: a reactive read, a
\* read that is dereferenced, a write, or an invalid array element.
Read(S, src) ==
    CASE src[1] = "ref"      -> RefGet(S, src[2])
      [] src[1] = "computed" -> ComputedGet(S)
      [] src[1] = "late"     -> LateGet(S)
      [] src[1] = "prop"     -> PropGet(S)
      [] src[1] = "get"      -> MapGet(S, src[2])
      [] src[1] = "has"      -> MapHasKey(S, src[2])
      [] src[1] = "size"     -> MapSize(S)
      [] src[1] = "deref"    -> Deref(S, src[2])
      [] src[1] = "set"      -> WriteStep(S, src[2])
      [] src[1] = "bad"      -> BadItem(S)

\* The steps srcs[i..] in order, up to the first that throws; ret is the
\* sequence of values read.
RECURSIVE Reads(_, _, _)
Reads(S, srcs, i) ==
    IF i > Len(srcs) \/ Thrown(S) THEN [st |-> S, ret |-> <<>>]
    ELSE Bind(Read(S, srcs[i]), LAMBDA R :
         Bind(Reads(R.st, srcs, i + 1), LAMBDA Rest :
            [st |-> Rest.st, ret |-> <<R.ret>> \o Rest.ret]))

\* ---------------------------------------------------- effects, watchers
\* An effectFn: a plain effect over the steps of its body, the internal
\* effect of the computed cell, or the lazy effect of watcher w (the only
\* kind that carries a scheduler). handle: effect() has returned the
\* effectFn to the client.
PlainEffect(body) == [kind |-> "plain", body |-> body, w |-> 0, handle |-> FALSE]
ComputedEffect == [kind |-> "computed", body |-> <<>>, w |-> 0, handle |-> FALSE]
WatchEffect(w) == [kind |-> "watch", body |-> <<>>, w |-> w, handle |-> FALSE]

\* (mutant) trigger runs every dependent directly
HasSchedulerNever(d) == FALSE

HasScheduler(d) == d.kind = "watch"

\* hasChanged of useWatch
hasChanged(new, old) ==
    IF new.arr /\ old.arr
    THEN IF Len(new.els) # Len(old.els) THEN TRUE
         ELSE \E i \in 1..Len(new.els) : StrictNeq(new.els[i], old.els[i])
    ELSE IF new.arr # old.arr THEN TRUE
         ELSE StrictNeq(new.els[1], old.els[1])

\* The canonical getter useWatch builds from its source.
WatchGetter(S, w) ==
    Bind(Reads(S, w.items, 1), LAMBDA R :
        [st  |-> R.st,
         ret |-> IF Thrown(R.st) THEN Scalar(Undef)
                 ELSE IF w.src = "arr" THEN Arr(R.ret) ELSE Scalar(R.ret[1])])

\* What the client's callback does besides being counted: nothing, or (cb =
\* "write") a write to what the watcher observes: r.value = 0 for the first
\* ref of the source, map.delete("k") for a watcher on the map.
CallbackBody(S0, w) ==
    IF w.cb # "write" THEN S0
    ELSE IF w.items[1][1] = "ref" THEN RefSet(S0, w.items[1][2], 0)
    ELSE MapDelete(S0, "k")

\* callback(newValue, oldValue); ret: whether it returns a cleanup function.
\* calls records how often the callback has been invoked: 0, 1 or 2 (more
\* than once), prev the newValue of its latest invocation.
Callback(S0, wi, new, old) ==
    Bind(S0, LAMBDA S :
        [st  |-> CallbackBody(
                    [Logged(S, [t |-> "cb", id |-> wi, p |-> NoPair,
                                new |-> new, old |-> old])
                       EXCEPT !.watchers[wi].calls = IF @ = 0 THEN 1 ELSE 2,
                              !.watchers[wi].prev = new],
                    S.watchers[wi]),
         ret |-> S.watchers[wi].cb = "cleanup"])

\* The stop flag after the callback of a watcher has returned.
StopAfterCallback(once, stop) == IF once THEN TRUE ELSE stop

\* (mutant) the stop flag is ignored
JobSkipsNever(stop) == FALSE

\* Whether job returns at once.
JobSkips(stop) == stop

\* (mutant) the internal effect does not invalidate the cell
MarkDirtyNot(S) == S

\* dirty = true of the computed cell's internal effect
MarkDirty(S) == [S EXCEPT !.dirty = TRUE]

\* trigger(target, key); not reached when the code before it has thrown
trigger(S0, p) ==
    Bind(S0, LAMBDA S :
        IF ~Thrown(S) /\ p \in DOMAIN S.deps THEN forEach(S, p, 1) ELSE S)

\* fn() of an effect, by the kind of the effect
RunFn(S0, e) ==
    Bind(S0, LAMBDA S :
        CASE S.effects[e].kind = "plain" -> Reads(S, S.effects[e].body, 1)
          [] S.effects[e].kind = "computed" ->
               Bind(getter(S), LAMBDA G :
                   [st |-> trigger(MarkDirty(G.st), CPair), ret |-> Undef])
          [] S.effects[e].kind = "watch" ->
               WatchGetter(S, S.watchers[S.effects[e].w]))

\* (mutant) the slot is not cleared when fn throws
effectFnNoFinally(S0, e) ==
    Bind(RunFn(Logged([S0 EXCEPT !.active = e], Event("run", e)), e), LAMBDA R :
        [st  |-> IF Thrown(R.st) THEN R.st ELSE [R.st EXCEPT !.active = Null],
         ret |-> R.ret])

\* effectFn of effect: set the slot, run fn, clear the slot (finally)
effectFn(S0, e) ==
    Bind(RunFn(Logged([S0 EXCEPT !.active = e], Event("run", e)), e), LAMBDA R :
        [st |-> [R.st EXCEPT !.active = Null], ret |-> R.ret])

\* (mutant) the iteration goes on after a dependent has thrown
forEachContinues(S0, p, i) ==
    Bind(S0, LAMBDA S :
        IF i > Len(S.deps[p]) THEN S
        ELSE LET e == S.deps[p][i]
                 d == S.effects[e]
             IN  forEach(IF HasScheduler(d)
                         THEN job(Logged(S, Event("sched", e)), d.w)
                         ELSE effectFn(S, e).st,
                         p, i + 1))

\* dep.forEach of trigger: a Set iteration also visits what is added
\* meanwhile; it ends when a dependent throws
forEach(S0, p, i) ==
    Bind(S0, LAMBDA S :
        IF i > Len(S.deps[p]) \/ Thrown(S) THEN S
        ELSE LET e == S.deps[p][i]
                 d == S.effects[e]
             IN  forEach(IF HasScheduler(d)
                         THEN job(Logged(S, Event("sched", e)), d.w)
                         ELSE effectFn(S, e).st,
                         p, i + 1))

\* job of useWatch, the scheduler of the watcher's effect
job(S0, wi) ==
    Bind(S0, LAMBDA S :
        IF JobSkips(S.watchers[wi].stop) THEN S
        ELSE Bind(effectFn(S, S.watchers[wi].eff), LAMBDA R :
                 LET w == R.st.watchers[wi]
                 IN  IF ~Thrown(R.st) /\ hasChanged(R.ret, w.old)
                     THEN Bind(Callback(R.st, wi, R.ret, w.old), LAMBDA C :
                              IF Thrown(C.st) THEN C.st
                              ELSE [C.st EXCEPT
                                 !.watchers[wi].cleanup = C.ret,
                                 !.watchers[wi].old = R.ret,
                                 !.watchers[wi].stop = StopAfterCallback(w.once, @)])
                     ELSE R.st))

\* -------------------------------------------------------- the API calls
\* effect(fn) with no options; the effectFn is returned unless fn threw
effect(S0, body) ==
    Bind([S0 EXCEPT !.effects = Append(@, PlainEffect(body))], LAMBDA S :
    Bind(effectFn(S, Len(S.effects)).st, LAMBDA T :
        IF Thrown(T) THEN T ELSE [T EXCEPT !.effects[Len(S.effects)].handle = TRUE]))

\* useComputed(() => a.value + b.value)
useComputed(S0) ==
    Bind([S0 EXCEPT !.effects = Append(@, ComputedEffect),
                    !.dirty = TRUE, !.cache = Undef], LAMBDA S :
        effectFn(S, Len(S.effects)).st)

\* Whether the source is a function, an array or a ref.
ValidSource(src) == src \in {"fn", "arr", "ref"}

\* (mutant) job() is called whatever the options
RunsJobAlways(immediate) == TRUE

\* Whether useWatch calls job() when it creates the watcher.
RunsJobAtCreation(immediate) == immediate

\* The closure useWatch creates: its options, oldValue, cleanup and stop,
\* the number of callback invocations, the value read at creation, the
\* value the watcher observed last (at creation or when the callback was
\* invoked) and whether useWatch has returned the stop function.
Watcher(src, items, immediate, once, cb, e) ==
    [src |-> src, items |-> items, immediate |-> immediate, once |-> once,
     cb |-> cb, eff |-> e, old |-> Scalar(Undef), cleanup |-> FALSE,
     stop |-> FALSE, calls |-> 0, seen |-> Scalar(Undef),
     prev |-> Scalar(Undef), returned |-> FALSE]

\* useWatch(source, callback, options)
useWatch(S0, src, items, immediate, once, cb) ==
    Bind(S0, LAMBDA S :
        IF ~ValidSource(src) THEN Raise(S, "source error")
        ELSE LET e  == Len(S.effects) + 1
                 wi == Len(S.watchers) + 1
                 S1 == [S EXCEPT
                          !.effects = Append(@, WatchEffect(wi)),
                          !.watchers = Append(@, Watcher(src, items, immediate, once, cb, e))]
             IN  Bind(IF RunsJobAtCreation(immediate) THEN job(S1, wi)
                      ELSE Bind(effectFn(S1, e), LAMBDA R :
                               IF Thrown(R.st) THEN R.st
                               ELSE [R.st EXCEPT !.watchers[wi].old = R.ret,
                                                 !.watchers[wi].seen = R.ret,
                                                 !.watchers[wi].prev = R.ret]),
                      LAMBDA T :
                          IF Thrown(T) THEN T
                          ELSE [T EXCEPT !.watchers[wi].returned = TRUE]))

\* Whether the stop function invokes the captured cleanup.
StopCleans(cleanup) == cleanup

\* (mutant) the stop function removes the watcher's effect from the
\* dependency graph
stopWatchUnregisters(S0, wi) ==
    Bind(S0, LAMBDA S :
        [(IF StopCleans(S.watchers[wi].cleanup)
          THEN Logged(S, Event("cleanup", wi)) ELSE S)
            EXCEPT !.watchers[wi].stop = TRUE,
                   !.deps = [p \in DOMAIN S.deps |->
                               SelectSeq(S.deps[p],
                                         LAMBDA x : x # S.watchers[wi].eff)]])

\* The stop function useWatch returns
stopWatch(S0, wi) ==
    Bind(S0, LAMBDA S :
        [(IF StopCleans(S.watchers[wi].cleanup)
          THEN Logged(S, Event("cleanup", wi)) ELSE S)
            EXCEPT !.watchers[wi].stop = TRUE])

\* ------------------------------------------------------ the client program
\* What the client program uses: the cells with plain effects, a watcher
\* on a ref, on an array of refs or on the computed cell, the reactive
\* object, the reactive map with plain effects or with a watcher, effects
\* whose body throws, effects whose body writes, watch sources that are
\* invalid, the readonly object, an effect created before the computed
\* cell it reads, or the reactive map with a key named "size".
Clients ==
    {"effects", "watchRef", "watchArray", "watchComputed", "object",
     "mapEffects", "mapWatch", "throwing", "nested", "invalid", "readonly",
     "late", "sizeKey"}

\* The keys the client stores in the map.
Keys == IF client = "sizeKey" THEN {"j", "size"} ELSE {"k", "j"}

Ra == <<"ref", "a">>
Rb == <<"ref", "b">>
Rc == <<"computed", "c">>
Rlate == <<"late", "c">>
Rp == <<"prop", "p">>
Rsize == <<"size", "size">>
Rget(k) == <<"get", k>>
Rhas(k) == <<"has", k>>
Da == <<"deref", "a">>
Wb == <<"set", "b">>
Bad == <<"bad", "">>

\* The bodies of the client's plain effects: their steps, in order.
Bodies ==
    CASE client = "effects" -> {<<Ra>>, <<Rc>>, <<Ra, Rc>>}
      [] client = "object"  -> {<<Rp>>}
      [] client = "mapEffects" ->
             {<<Rsize>>} \cup {<<Rget(k)>> : k \in Keys}
                         \cup {<<Rhas(k)>> : k \in Keys}
      [] client = "sizeKey" -> {<<Rsize>>, <<Rget("size")>>, <<Rget("j")>>}
      [] client = "late"     -> {<<Ra, Rlate>>}
      [] client = "throwing" -> {<<Ra>>, <<Da>>}
      [] client = "nested"   -> {<<Rb>>, <<Wb, Ra>>}
      [] OTHER              -> {}

\* The sources of the client's watchers: a ref, an array of refs, the
\* computed cell, a function reading the object or the map, a value that
\* is no source, or an array with an element that is no source.
Sources ==
    CASE client = "watchRef"      -> {<<"ref", <<Ra>>>>}
      [] client = "watchArray"    -> {<<"arr", <<Ra, Rb>>>>}
      [] client = "watchComputed" -> {<<"ref", <<Rc>>>>}
      [] client = "object"        -> {<<"fn", <<Rp>>>>}
      [] client = "mapWatch"      -> {<<"fn", <<Rsize>>>>, <<"fn", <<Rget("k")>>>>}
      [] client = "invalid"       -> {<<"invalid", <<>>>>, <<"arr", <<Ra, Bad>>>>,
                                      <<"arr", <<Bad, Ra>>>>}
      [] OTHER                    -> {}

\* What the client's callbacks do: return nothing, return a cleanup
\* function, or write to what the watcher observes.
Callbacks ==
    CASE client = "watchRef" -> {"plain", "cleanup", "write"}
      [] client \in {"watchArray", "mapWatch"} -> {"plain", "write"}
      [] OTHER -> {"plain"}

\* The once option of the client's watchers.
Onces == IF client \in {"watchArray", "mapWatch"} THEN {FALSE} ELSE BOOLEAN

\* The refs the client writes.
UsedRefs ==
    CASE client \in {"effects", "watchArray", "nested"} -> Refs
      [] client \in {"watchRef", "watchComputed", "throwing", "invalid", "late"} -> {"a"}
      [] OTHER -> {}

UsesC(srcs) == \E i \in 1..Len(srcs) : srcs[i] = Rc

PlainCount == Cardinality({i \in 1..Len(effects) : effects[i].kind = "plain"})

\* The dependents registered for a pair (none when the pair has no entry).
Dependents(d, p) == IF p \in DOMAIN d THEN d[p] ELSE <<>>

\* A top-level call and what held when it was made: whether it changes the
\* stored value, the dependents of the written pair, the stop flags, the
\* keys of the map and how the call before it ended.
Call(op, target, arg, changed, pre, ret) ==
    [op |-> op, target |-> target, arg |-> arg, changed |-> changed,
     pre |-> pre, ret |-> ret,
     stopped |-> [w \in 1..Len(watchers) |-> watchers[w].stop],
     keys |-> mkeys, after |-> exc]

Commit(S0, call) ==
    \E S \in {S0} :
    /\ val' = S.val
    /\ prop' = S.prop
    /\ mkeys' = S.mkeys
    /\ mval' = S.mval
    /\ deps' = S.deps
    /\ activeEffect' = S.active
    /\ effects' = S.effects
    /\ dirty' = S.dirty
    /\ cache' = S.cache
    /\ watchers' = S.watchers
    /\ log' = S.log
    /\ exc' = S.exc
    /\ last' = call
    /\ UNCHANGED client

Init ==
    /\ client \in Clients
    /\ val \in [Refs -> Vals]
    /\ \A r \in Refs \ UsedRefs : val[r] = 0
    /\ prop \in IF client \in {"object", "readonly"} THEN Vals ELSE {0}
    /\ mkeys = <<>>
    /\ mval = [k \in MapKeys |-> Undef]
    /\ deps = <<>>
    /\ activeEffect = Null
    /\ effects = <<>>
    /\ hasC = FALSE
    /\ dirty = TRUE
    /\ cache = Undef
    /\ watchers = <<>>
    /\ log = <<>>
    /\ exc = "none"
    /\ last = Call("init", "", Undef, FALSE, <<>>, Undef)

NewEffect ==
    /\ PlainCount < MaxEffects
    /\ \E body \in Bodies :
        /\ UsesC(body) => hasC
        /\ Commit(effect(Engine, body),
                  Call("effect", "", Undef, FALSE, <<>>, Undef))
    /\ UNCHANGED hasC

\* effectFn(): the client invokes the handle effect() returned
RunEffect ==
    /\ client \in {"throwing", "nested"}
    /\ \E e \in 1..Len(effects) :
        /\ effects[e].handle
        /\ Commit(effectFn(Engine, e).st,
                  Call("runEffect", "", e, FALSE, <<>>, Undef))
    /\ UNCHANGED hasC

NewComputed ==
    /\ client \in {"effects", "watchComputed", "late"}
    /\ ~hasC
    /\ hasC' = TRUE
    /\ Commit(useComputed(Engine),
              Call("useComputed", "c", Undef, FALSE, <<>>, Undef))

NewWatch ==
    /\ watchers = <<>>
    /\ \E s \in Sources, immediate \in BOOLEAN, once \in Onces,
          cb \in Callbacks :
        /\ UsesC(s[2]) => hasC
        /\ Commit(useWatch(Engine, s[1], s[2], immediate, once, cb),
                  Call("useWatch", s[1], Undef, immediate, <<>>, Undef))
    /\ UNCHANGED hasC

SetRef ==
    /\ \E r \in UsedRefs, v \in Vals :
        Commit(RefSet(Engine, r, v),
               Call("setRef", r, v, StrictNeq(val[r], v),
                    Dependents(deps, RefPair(r)), Undef))
    /\ UNCHANGED hasC

\* a.value read by the client, outside any effect
GetRef ==
    /\ client \in {"throwing", "nested"}
    /\ \E R \in {RefGet(Engine, "a")} :
          Commit(R.st, Call("getRef", "a", Undef, FALSE,
                            Dependents(deps, RefPair("a")), R.ret))
    /\ UNCHANGED hasC

GetComputed ==
    /\ hasC
    /\ \E R \in {ComputedGet(Engine)} :
          Commit(R.st, Call("getComputed", "c", cache, dirty, <<>>, R.ret))
    /\ UNCHANGED hasC

\* c.value = v
SetComputed ==
    /\ hasC
    /\ \E v \in Nums :
        Commit(ComputedSet(Engine, v),
               Call("setComputed", "c", v, FALSE, Dependents(deps, CPair), Undef))
    /\ UNCHANGED hasC

Stop ==
    /\ \E wi \in 1..Len(watchers) :
        /\ watchers[wi].returned
        /\ Commit(stopWatch(Engine, wi),
                  Call("stop", "", wi, watchers[wi].stop, <<>>, Undef))
    /\ UNCHANGED hasC

SetProp ==
    /\ client = "object"
    /\ \E v \in Vals :
        Commit(PropSet(Engine, v),
               Call("setProp", "o", v, StrictNeq(prop, v),
                    Dependents(deps, PropPair), Undef))
    /\ UNCHANGED hasC

\* ro.p = v, delete ro.p and ro.p on the object useReadonly returned
SetReadonly ==
    /\ client = "readonly"
    /\ \E v \in Vals :
        Commit(ReadonlySet(Engine, v),
               Call("setReadonly", "ro", v, StrictNeq(prop, v), <<>>, Undef))
    /\ UNCHANGED hasC

DeleteReadonly ==
    /\ client = "readonly"
    /\ Commit(ReadonlyDelete(Engine),
              Call("deleteReadonly", "ro", Undef, prop # Undef, <<>>, Undef))
    /\ UNCHANGED hasC

GetReadonly ==
    /\ client = "readonly"
    /\ \E R \in {ReadonlyGet(Engine)} :
          Commit(R.st, Call("getReadonly", "ro", Undef, FALSE, <<>>, R.ret))
    /\ UNCHANGED hasC

SetKey ==
    /\ client \in {"mapEffects", "mapWatch", "sizeKey"}
    /\ \E k \in Keys, v \in Vals :
        Commit(MapSet(Engine, k, v),
               Call("setKey", k, v,
                    ~MapHas(Engine, k) \/ StrictNeq(mval[k], v),
                    Dependents(deps, KeyPair(k)), Undef))
    /\ UNCHANGED hasC

DeleteKey ==
    /\ client \in {"mapEffects", "mapWatch", "sizeKey"}
    /\ \E k \in Keys :
        Commit(MapDelete(Engine, k),
               Call("deleteKey", k, Undef, MapHas(Engine, k),
                    Dependents(deps, KeyPair(k)), Undef))
    /\ UNCHANGED hasC

ClearMap ==
    /\ client \in {"mapEffects", "mapWatch", "sizeKey"}
    /\ Commit(MapClear(Engine),
              Call("clear", "", Undef, mkeys # <<>>,
                   Dependents(deps, SizePair), Undef))
    /\ UNCHANGED hasC

Next ==
    \/ NewEffect
    \/ RunEffect
    \/ NewComputed
    \/ NewWatch
    \/ SetRef
    \/ GetRef
    \/ GetComputed
    \/ SetComputed
    \/ Stop
    \/ SetProp
    \/ SetReadonly
    \/ DeleteReadonly
    \/ GetReadonly
    \/ SetKey
    \/ DeleteKey
    \/ ClearMap

Spec == Init /\ [][Next]_vars

\* ------------------------------------------------------------ the claims
\* How many times the last call invoked something: the body of effect id
\* ("run"), the scheduler of effect id ("sched"), the callback of watcher id
\* ("cb"), its cleanup ("cleanup"), the derivation function ("derive").
CountIn(l, t) == Cardinality({i \in 1..Len(l) : l[i].t = t})
Count(t, id) == Cardinality({i \in 1..Len(log) : log[i].t = t /\ log[i].id = id})
CountAll(t) == CountIn(log, t)

IsPlain(e) == e \in 1..Len(effects) /\ effects[e].kind = "plain"
BodyReads(e, src) == \E i \in 1..Len(effects[e].body) : effects[e].body[i] = src
Registered(e, seq) == \E i \in 1..Len(seq) : seq[i] = e

\* C1: a plain effect whose body read r.value while it was the active effect
\* (so that it is a dependent of r) is re-invoked exactly once by a write to
\* r.value that changes the value, and not at all by a write of the value
\* already stored (the write returning normally).
C1_OncePerChange ==
    (last.op = "setRef" /\ exc = "none") =>
        \A e \in 1..Len(effects) :
            (IsPlain(e) /\ BodyReads(e, <<"ref", last.target>>)
                        /\ Registered(e, last.pre))
            => Count("run", e) = IF last.changed THEN 1 ELSE 0

\* C2: a write of the value already stored (to a property of the reactive
\* object, to a ref, or to an existing key of the reactive map) invokes no
\* effect body, no scheduler and no watcher callback.
C2_NoNotificationWithoutChange ==
    (last.op \in {"setRef", "setProp", "setKey"} /\ ~last.changed)
        => \A i \in 1..Len(log) : log[i].t = "store"

C2_Witness ==
    /\ last.op = "setKey"
    /\ ~last.changed
    /\ last.pre # <<>>
    /\ SizePair \in DOMAIN deps

\* C3: a read of c.value made outside any effect returns the sum of the
\* current values of a and b, whatever writes and reads came before.
C3_ComputedIsSum ==
    last.op = "getComputed" => last.ret = Plus(val["a"], val["b"])

\* A read that found the cell invalidated after an earlier read, and
\* returned another value than the one cached before.
C3_Witness ==
    /\ last.op = "getComputed"
    /\ last.changed
    /\ last.arg \in Nums
    /\ last.ret \in Nums
    /\ last.ret # last.arg

\* C4 as stated: the derivation function is not invoked when the computed
\* cell is constructed, nor by a write to a or b that no reader of c.value
\* depends on.
C4_NotDerivedEagerly ==
    /\ last.op = "useComputed" => CountAll("derive") = 0
    /\ (last.op = "setRef" /\ CPair \notin DOMAIN deps) => CountAll("derive") = 0

\* C4 amended: the derivation function is invoked once by each run of the
\* cell's internal effect (at construction and on every upstream change,
\* the result discarded) and once by each read of the value while the cell
\* is dirty, and never otherwise; the cached value is only assigned by such
\* a read.
C4_DerivedByEffectOrDirtyRead ==
    /\ CountAll("derive") =
          CountAll("getDirty")
          + Cardinality({i \in 1..Len(log) :
                log[i].t = "run" /\ effects[log[i].id].kind = "computed"})
    /\ last.op = "useComputed" => (CountAll("derive") = 1 /\ cache = Undef /\ dirty)
    /\ (hasC /\ CountAll("getDirty") = 0 /\ last.op = "setRef" /\ last.changed)
          => (CountAll("derive") = 1 /\ dirty)

\* An upstream write that ran the derivation function although nothing
\* read the cell.
C4_Witness ==
    /\ last.op = "setRef"
    /\ last.changed
    /\ CountAll("derive") = 1
    /\ CountAll("getDirty") = 0
    /\ CountAll("getClean") = 0

\* C5: a read of c.value while the cell is not dirty returns the cached
\* value without invoking the derivation function; a read while it is dirty
\* invokes it once and clears the flag (so the next read invokes it not at
\* all).
C5_CachedRead ==
    last.op = "getComputed" =>
        /\ ~dirty
        /\ last.changed => CountAll("derive") = 1
        /\ ~last.changed => (CountAll("derive") = 0 /\ last.ret = last.arg)

C5_Witness ==
    /\ last.op = "getComputed"
    /\ ~last.changed
    /\ last.arg \in Nums
    /\ CountAll("derive") = 0

\* The watcher the client created on the ref a alone.
WatchesRefA(w) == w.src = "ref" /\ w.items = <<Ra>>

\* C6 as stated: useWatch(r, cb, { immediate: true }) invokes cb exactly
\* once before it returns, with the current value of r as newValue,
\* whatever that value is.
C6_ImmediateInvokesCallback ==
    (last.op = "useWatch" /\ last.changed /\ WatchesRefA(watchers[1])) =>
        /\ Count("cb", 1) = 1
        /\ \A i \in 1..Len(log) :
              log[i].t = "cb" => log[i].new = Scalar(val["a"])

\* C7: useWatch(r, cb) without immediate records the value of r and does
\* not invoke cb while it is created; the first invocation of cb is made by
\* a write to r.value of a value strictly different from the recorded one.
C7_NoCallbackBeforeChange ==
    [][\A w \in 1..Len(watchers') :
          (~watchers'[w].immediate /\ WatchesRefA(watchers'[w])) =>
              /\ Len(watchers) < w =>
                    /\ watchers'[w].calls = 0
                    /\ CountIn(log', "cb") = 0
                    /\ watchers'[w].seen = Scalar(val'["a"])
              /\ (Len(watchers) >= w /\ watchers[w].calls = 0
                                     /\ watchers'[w].calls > 0) =>
                    /\ last'.op = "setRef"
                    /\ last'.changed
                    /\ \E i \in 1..Len(log') :
                          /\ log'[i].t = "cb"
                          /\ \A j \in 1..(i - 1) : log'[j].t # "cb"
                          /\ StrictNeq(log'[i].new.els[1], watchers[w].seen.els[1])
                          /\ \E j \in 1..(i - 1) :
                                /\ log'[j].t = "store"
                                /\ log'[j].new = log'[i].new]_vars

\* The first invocation of the callback of a watcher created without
\* immediate: made by a changing write, with the recorded value as oldValue.
C7_Witness ==
    /\ watchers # <<>>
    /\ ~watchers[1].immediate
    /\ WatchesRefA(watchers[1])
    /\ watchers[1].calls = 1
    /\ last.op = "setRef"
    /\ last.changed
    /\ \E i \in 1..Len(log) : log[i].t = "cb" /\ log[i].old = watchers[1].seen

\* C8 as stated: the callback of a watcher created with once: true is
\* invoked at most one time in total, whatever writes follow.
C8_OnceAtMostOnce ==
    \A w \in 1..Len(watchers) : watchers[w].once => watchers[w].calls <= 1

\* C9 as stated: a call of the stop function that follows another call of it
\* changes nothing and does not invoke the captured cleanup again.
C9_StopIdempotent ==
    [][(last.op = "stop" /\ last'.op = "stop") =>
          (CountIn(log', "cleanup") = 0 /\ watchers' = watchers)]_vars

\* C10 as stated: with useWatch([a, b], cb) not stopped, every write that
\* changes a.value or b.value invokes cb exactly once (as many invocations
\* as values stored during the call), with the pair of the current values
\* as newValue; arrays are compared by length and then element by element
\* with !== (a property of hasChanged alone, evaluated once, in the initial
\* states).
C10_ArrayWatch ==
    /\ (last.op = "setRef" /\ last.changed /\ last.stopped # <<>>
          /\ watchers[1].items = <<Ra, Rb>> /\ ~last.stopped[1]
          /\ ~watchers[1].once) =>
            /\ CountAll("cb") = CountAll("store")
            /\ \A i \in 1..Len(log) :
                  (log[i].t = "cb" /\ \A j \in (i + 1)..Len(log) : log[j].t # "store")
                      => log[i].new = Arr(<<val["a"], val["b"]>>)
    /\ last.op = "init" =>
          \A x, y \in UNION {[1..n -> Vals] : n \in 1..2} :
              hasChanged(Arr(x), Arr(y)) =
                  (Len(x) # Len(y) \/ \E i \in 1..Len(x) : x[i] # y[i])


InSeq(x, seq) == \E i \in 1..Len(seq) : seq[i] = x

\* The index of the latest event before i that satisfies Is (0: none).
LatestBefore(l, i, Is(_)) ==
    IF \E j \in 1..(i - 1) : Is(l[j])
    THEN CHOOSE j \in 1..(i - 1) :
            Is(l[j]) /\ \A m \in (j + 1)..(i - 1) : ~Is(l[m])
    ELSE 0

IsCb(ev) == ev.t = "cb"

\* C11 as stated: in every invocation of a watcher's callback, oldValue is
\* the value the watcher observed at its previous callback invocation, or at
\* creation for a watcher created without immediate, or undefined for the
\* first invocation of an immediate watcher.
C11_OldValueIsPrevious ==
    [][\A i \in 1..Len(log') :
          log'[i].t = "cb" =>
              log'[i].old =
                  IF LatestBefore(log', i, IsCb) # 0
                  THEN log'[LatestBefore(log', i, IsCb)].new
                  ELSE IF watchers = <<>> THEN Scalar(Undef)
                  ELSE watchers[1].prev]_vars

\* C12 as stated: the callback of a watcher on map.size that is not stopped
\* is invoked exactly once by a set that adds a key and by a delete of an
\* existing key, and not at all by a set on a key already present.
C12_SizeWatch ==
    (watchers # <<>> /\ watchers[1].items = <<Rsize>> /\ last.stopped = <<FALSE>>) =>
        /\ last.op = "setKey" =>
              Count("cb", 1) = IF InSeq(last.target, last.keys) THEN 0 ELSE 1
        /\ (last.op = "deleteKey" /\ InSeq(last.target, last.keys)) =>
              Count("cb", 1) = 1

\* C13: once the stop flag of a watcher is set, no later call invokes its
\* callback or runs its getter, although its scheduler is still invoked.
C13_StoppedStaysSilent ==
    \A w \in 1..Len(last.stopped) :
        last.stopped[w] =>
            /\ Count("cb", w) = 0
            /\ Count("run", watchers[w].eff) = 0

\* A changing write to the source of a watcher that was stopped by its stop
\* function after it had fired.
C13_Witness ==
    /\ last.op \in {"setRef", "setProp", "setKey"}
    /\ last.changed
    /\ last.stopped = <<TRUE>>
    /\ ~watchers[1].once
    /\ watchers[1].calls > 0
    /\ Count("sched", watchers[1].eff) > 0

HasBad(items) == InSeq(Bad, items)

\* C14: useWatch throws 'source error' before it returns, and the callback
\* is never invoked, when the source is neither a function, an array nor a
\* ref, and when it is an array with an element that is neither a function
\* nor a ref.
C14_SourceError ==
    /\ (last.op = "useWatch" /\ last.target = "invalid") =>
          (exc = "source error" /\ watchers = <<>> /\ CountAll("cb") = 0)
    /\ \A w \in 1..Len(watchers) :
          HasBad(watchers[w].items) =>
              /\ watchers[w].calls = 0
              /\ ~watchers[w].returned
              /\ last.op = "useWatch" => exc = "source error"

\* useWatch([a, invalid], cb, { immediate: true }) has thrown.
C14_Witness ==
    /\ last.op = "useWatch"
    /\ exc = "source error"
    /\ watchers # <<>>
    /\ watchers[1].items = <<Ra, Bad>>
    /\ watchers[1].immediate

\* C15: a set or a delete on the readonly object and a write to c.value do
\* not throw and change nothing: the property of the readonly object reads
\* as before, no effect, scheduler or callback is invoked, the computed cell
\* keeps its cache and its flag, and the next read of c.value returns the
\* sum of a and b.
C15_PolicyWritesAreNoOps ==
    [][/\ last'.op \in {"setReadonly", "deleteReadonly", "setComputed"} =>
            /\ exc' = "none"
            /\ <<val', prop', mkeys', mval', deps', effects', dirty', cache', watchers'>>
                 = <<val, prop, mkeys, mval, deps, effects, dirty, cache, watchers>>
            /\ \A i \in 1..Len(log') : log'[i].t = "warn"
       /\ client = "readonly" => prop' = prop
       /\ last'.op = "getReadonly" => last'.ret = prop
       /\ (last.op = "setComputed" /\ last'.op = "getComputed") =>
            last'.ret = Plus(val["a"], val["b"])]_vars

\* A write to c.value of another value than the cached one, while the cell
\* has dependents.
C15_Witness ==
    /\ last.op = "setComputed"
    /\ last.pre # <<>>
    /\ ~dirty
    /\ cache \in Nums
    /\ cache # last.arg

OnlyReads(e, k) == effects[e].body \in {<<Rget(k)>>, <<Rhas(k)>>}

\* C16 as stated: a plain effect whose only reactive read is map.get(k) or
\* map.has(k) is re-invoked (once) by set(k, v) iff k was absent or v is
\* strictly different from the stored value, by delete(k) iff k was present,
\* and by clear() iff k was present, whatever string the key k is.
C16_MapKeyEffects ==
    \A e \in 1..Len(effects), k \in MapKeys :
        (IsPlain(e) /\ OnlyReads(e, k)) =>
            /\ (last.op \in {"setKey", "deleteKey"} /\ last.target = k) =>
                  Count("run", e) = IF last.changed THEN 1 ELSE 0
            /\ last.op = "clear" =>
                  Count("run", e) = IF InSeq(k, last.keys) THEN 1 ELSE 0

\* C17 as stated: an effect whose body performs a write (which may run
\* another effect) and then reads a.value is a dependent of a after it has
\* run.
C17_OuterKeepsTracking ==
    \A e \in 1..Len(effects) :
        (IsPlain(e) /\ effects[e].body = <<Wb, Ra>>)
            => Registered(e, Dependents(deps, RefPair("a")))

\* C18: when an effect body throws, the call that invoked the effect (its
\* creation, a call of its handle, the write that triggered it) ends with
\* the exception; the active-effect slot is empty after every call, and a
\* read made by the client after a call that threw registers nothing.
C18_ThrowRestoresMarker ==
    [][/\ CountIn(log', "throw") > 0 =>
            /\ exc' = "TypeError"
            /\ last'.op \in {"effect", "runEffect", "setRef"}
       /\ activeEffect' = Null
       /\ (exc # "none" /\ last'.op = "getRef") => deps' = deps]_vars

\* A read of a.value by the client right after a call that threw, a having
\* dependents.
C18_Witness ==
    /\ last.op = "getRef"
    /\ last.after = "TypeError"
    /\ last.pre # <<>>

\* C19: during a changing write, the effect of a watcher is only run by its
\* scheduler (job), which trigger invokes: the scheduler of a stopped
\* watcher is invoked and its getter is not run; a dependent without a
\* scheduler is run directly; a write to a pair without dependents invokes
\* nothing and does not throw.
C19_TriggerDispatch ==
    (last.op \in {"setRef", "setProp"} /\ last.changed) =>
        /\ \A i \in 1..Len(log) :
              (log[i].t = "run" /\ effects[log[i].id].kind = "watch") =>
                  /\ i > 1
                  /\ log[i - 1].t = "sched"
                  /\ log[i - 1].id = log[i].id
        /\ \A w \in 1..Len(last.stopped) :
              (last.stopped[w] /\ Registered(watchers[w].eff, last.pre)) =>
                  /\ Count("sched", watchers[w].eff) > 0
                  /\ Count("run", watchers[w].eff) = 0
        /\ \A k \in 1..Len(last.pre) :
              IsPlain(last.pre[k]) =>
                  /\ Count("sched", last.pre[k]) = 0
                  /\ exc = "none" => Count("run", last.pre[k]) > 0
        /\ last.pre = <<>> =>
              (exc = "none" /\ \A i \in 1..Len(log) : log[i].t = "store")

\* A write to the property of the reactive object that has a plain effect
\* and a watcher as dependents.
C19_Witness ==
    /\ last.op = "setProp"
    /\ last.changed
    /\ CountAll("sched") > 0
    /\ \E k \in 1..Len(last.pre) :
          IsPlain(last.pre[k]) /\ Count("run", last.pre[k]) > 0

WrittenPair ==
    CASE last.op = "setRef"  -> RefPair(last.target)
      [] last.op = "setProp" -> PropPair
      [] last.op = "setKey"  -> KeyPair(last.target)

IsStoreOfWritten(ev) == ev.t \in {"store", "delete"} /\ ev.p = WrittenPair

\* C20: a changing write to a ref, a property of the reactive object or a
\* key of the reactive map stores the value before anything else happens;
\* when the write returns, every dependent registered for the pair when the
\* write was made has been invoked (its body or its scheduler); every read
\* of the pair made during the write returns the value stored last.
C20_WriteThenNotify ==
    (last.op \in {"setRef", "setProp", "setKey"} /\ last.changed) =>
        /\ log # <<>>
        /\ log[1] = Access("store", Null, WrittenPair, last.arg)
        /\ exc = "none" =>
              \A k \in 1..Len(last.pre) :
                  Count("run", last.pre[k]) + Count("sched", last.pre[k]) > 0
        /\ \A i \in 1..Len(log) :
              (log[i].t = "read" /\ log[i].p = WrittenPair) =>
                  log[i].new = log[LatestBefore(log, i, IsStoreOfWritten)].new

\* A changing write to a ref that a dependent reads again.
C20_Witness ==
    /\ last.op = "setRef"
    /\ last.changed
    /\ last.pre # <<>>
    /\ \E i \in 1..Len(log) :
          /\ log[i].t = "read"
          /\ log[i].p = WrittenPair
          /\ Registered(log[i].id, last.pre)
          /\ log[i].new = Scalar(last.arg)

\* C21 as stated: when the callback of a watcher is invoked while a cleanup
\* returned by its previous invocation is captured and has not been invoked,
\* that cleanup is invoked first.
C21_CleanupBeforeNext ==
    [][\A w \in 1..Len(watchers) :
          watchers[w].cleanup =>
              \A i \in 1..Len(log') :
                  (log'[i].t = "cb" /\ log'[i].id = w) =>
                      \E j \in 1..(i - 1) :
                          log'[j].t = "cleanup" /\ log'[j].id = w]_vars

NoDuplicates(seq) == \A i, j \in 1..Len(seq) : seq[i] = seq[j] => i = j

\* C22: after every call, each pair that has an entry in the dependency
\* graph has at least one dependent, each of them an effect and none of them
\* twice; a read made by the client outside any effect (of a ref, or of the
\* computed cell, whose derivation function then reads a and b) leaves the
\* dependency graph as it was.
C22_DependencyGraph ==
    [][/\ \A p \in DOMAIN deps' :
            /\ Len(deps'[p]) >= 1
            /\ NoDuplicates(deps'[p])
            /\ \A i \in 1..Len(deps'[p]) : deps'[p][i] \in 1..Len(effects')
       /\ last'.op \in {"getRef", "getComputed", "getReadonly"} => deps' = deps]_vars

\* A read of c.value by the client that runs the derivation function, the
\* refs having dependents and a pair having two of them.
C22_Witness ==
    /\ last.op = "getComputed"
    /\ last.changed
    /\ RefPair("a") \in DOMAIN deps
    /\ \E p \in DOMAIN deps : Len(deps[p]) >= 2

\* C23 as stated: a plain effect whose body reads only c.value is re-invoked
\* exactly once by each write to a.value that changes the value of a.
C23_OncePerUpstreamChange ==
    (last.op = "setRef" /\ last.target = "a" /\ last.changed /\ exc = "none") =>
        \A e \in 1..Len(effects) :
            (IsPlain(e) /\ effects[e].body = <<Rc>>) => Count("run", e) = 1

\* C24 as stated: every read of c.value, the reads made by effects and
\* watcher getters during the propagation of a write to a or b included,
\* returns the sum of the current values of a and b (no dependent of the
\* clients that use the cell writes to a ref, so the current values are the
\* ones the call leaves).
C24_NeverStale ==
    \A i \in 1..Len(log) :
        (log[i].t = "read" /\ log[i].p = CPair) =>
            log[i].new = Scalar(Plus(val["a"], val["b"]))

\* C25 as stated: the callback of a watcher is not entered again while it
\* is executing (one call of the client invokes it at most once although the
\* callback writes to the watched ref), the callback of a watcher created
\* with once: true that writes to the watched ref is invoked at most once in
\* total, and the write that invoked it returns normally.
C25_NoReentrantCallback ==
    \A w \in 1..Len(watchers) :
        (watchers[w].cb = "write" /\ WatchesRefA(watchers[w])) =>
            /\ last.op = "setRef" => (Count("cb", w) <= 1 /\ exc = "none")
            /\ watchers[w].once => watchers[w].calls <= 1

\* C26 as stated: after a useWatch call that threw 'source error', the
\* effect of the failed watcher is a dependent of no pair, and a later write
\* to a ref of the rejected array source returns normally and invokes
\* nothing of the failed watcher.
C26_FailedWatchLeavesNothing ==
    \A w \in 1..Len(watchers) :
        ~watchers[w].returned =>
            /\ \A p \in DOMAIN deps : ~Registered(watchers[w].eff, deps[p])
            /\ last.op = "setRef" =>
                  /\ exc = "none"
                  /\ Count("sched", watchers[w].eff) = 0
                  /\ Count("run", watchers[w].eff) = 0

\* C27: when a dependent throws during the trigger of a changing write to a
\* ref, the write ends with the exception, the ref holds the new value, the
\* throw is the last thing that happens, and the dependents of the ref that
\* come after the one that threw are not invoked by that write.
C27_ThrowStopsTrigger ==
    (last.op = "setRef" /\ last.changed /\ CountAll("throw") > 0) =>
        /\ exc = "TypeError"
        /\ val[last.target] = last.arg
        /\ log[Len(log)].t = "throw"
        /\ \A j, k \in 1..Len(last.pre) :
              (j < k /\ last.pre[j] = log[Len(log)].id) =>
                  Count("run", last.pre[k]) + Count("sched", last.pre[k]) = 0

\* A write to a that has two dependents, the first of which throws.
C27_Witness ==
    /\ last.op = "setRef"
    /\ last.changed
    /\ exc = "TypeError"
    /\ Len(last.pre) = 2
    /\ log[Len(log)].id = last.pre[1]
    /\ Count("run", last.pre[2]) = 0
    /\ val[last.target] = last.arg

\* C28 as stated: for distinct keys k and k2 (any strings, "size" included),
\* a plain effect whose only reactive read is map.get(k) or map.has(k) is not
\* re-invoked by set(k2, v) or delete(k2); a plain effect whose only reactive
\* read is map.size is re-invoked by a set or a delete only through the one
\* size notification: once when the call changes the map, else not at all.
C28_PerKeyIsolation ==
    last.op \in {"setKey", "deleteKey"} =>
        \A e \in 1..Len(effects) :
            /\ \A k \in MapKeys \ {last.target} :
                  (IsPlain(e) /\ OnlyReads(e, k)) => Count("run", e) = 0
            /\ (IsPlain(e) /\ effects[e].body = <<Rsize>>) =>
                  Count("run", e) = IF last.changed THEN 1 ELSE 0

\* The dependent e was invoked by the call (its body run or its scheduler
\* called).
Invoked(l, e) ==
    \E i \in 1..Len(l) : l[i].t \in {"run", "sched"} /\ l[i].id = e

IsChangingWrite(c) ==
    c.op \in {"setRef", "setProp", "setKey", "deleteKey"} /\ c.changed

\* No call removes a dependent: every entry of the dependency graph keeps
\* its dependents, in their order.
DepsOnlyGrow(d, e) ==
    \A p \in DOMAIN d :
        /\ p \in DOMAIN e
        /\ Len(e[p]) >= Len(d[p])
        /\ SubSeq(e[p], 1, Len(d[p])) = d[p]

Visits(e) ==
    IF effects[e].kind = "watch" THEN Count("sched", e) ELSE Count("run", e)

\* The runs of the internal effect of the computed cell during the call;
\* each of them triggers the dependents of c once.
ComputedRuns ==
    Cardinality({i \in 1..Len(log) :
        log[i].t = "run" /\ effects[log[i].id].kind = "computed"})

\* C30: a changing write to a ref or to the property of the reactive object
\* during which no dependent stores a value returns to the writer (with an
\* exception only if an effect body or a getter threw), although every
\* dependent it runs registers itself again in the set being iterated: each
\* effect is invoked at most once by the iteration over the dependents of the
\* written pair and at most once more by each trigger of the computed cell,
\* the internal effect of the cell is run at most once, and the getter of a
\* watcher is run only by its scheduler.
C30_WriteTerminates ==
    (last.op \in {"setRef", "setProp"} /\ last.changed
        /\ CountAll("store") + CountAll("delete") = 1) =>
        /\ (CountAll("throw") = 0 /\ \A w \in 1..Len(watchers) : watchers[w].returned)
              => exc = "none"
        /\ ComputedRuns <= 1
        /\ \A e \in 1..Len(effects) :
              /\ Visits(e) <= 1 + ComputedRuns
              /\ effects[e].kind = "watch" => Count("run", e) <= Count("sched", e)
              /\ (ComputedRuns = 0 /\ Registered(e, last.pre) /\ exc = "none")
                    => Visits(e) = 1
        /\ NoDuplicates(Dependents(deps, WrittenPair))

\* A changing write to a ref with two dependents, each of which was run
\* once and registered itself again; the set of dependents is as before.
C30_Witness ==
    /\ last.op = "setRef"
    /\ last.changed
    /\ exc = "none"
    /\ Len(last.pre) = 2
    /\ \A k \in 1..2 : IsPlain(last.pre[k]) /\ Count("run", last.pre[k]) = 1
    /\ CountAll("read") >= 2
    /\ Dependents(deps, WrittenPair) = last.pre

====
